---- MODULE Spec2Model ----
(***************************************************************************)
(* State-machine model of src/src/App.jsx: the React component App of the  *)
(* RKPU 3D viewer.  The model covers the data load (one fetch and its      *)
(* promise chain), the three passive effects (load, Cesium viewer          *)
(* initialisation, entity rendering), the re-render that attaches the map  *)
(* container, the user handlers of the control panel, and the render pass  *)
(* that turns (data, layers, waypointSources, obstacleTypes, searchTerm)   *)
(* into the entities of the Cesium scene.                                  *)
(*                                                                         *)
(* JavaScript values are modelled as follows.  A string that the code      *)
(* searches or lower-cases is a sequence of one-character strings.  An     *)
(* optional JSON field is None (absent, JavaScript undefined) or Some(v).  *)
(* `a || b` is modelled by its truthiness rule: absent, 0 and "" are       *)
(* falsy, every array (the empty one included) is truthy.                  *)
(***************************************************************************)
EXTENDS Integers, Sequences, FiniteSets, TLC

VARIABLES
    mounted,            \* App has been rendered for the first time
    effects,            \* passive effects queued by the last commit, in order
    chain,              \* position in fetch(...).then(...).then(...).catch(...)
    response,           \* the parsed JSON document handed to the second then
    outcome,            \* "none", "ok" (then-callback completed), "failed" (catch ran)
    fetchCount,         \* number of fetch calls issued
    data,               \* useState(null): None or Some(document)
    loading,            \* useState(true)
    layers,             \* useState({waypoints, obstacles, airspace, SID, STAR, APPROACH})
    waypointSources,    \* useState({}): the set of tags mapped to true
    obstacleTypes,      \* useState({Building, ..., ETC})
    searchTerm,         \* useState('')
    expandedCategories, \* useState({waypoints, obstacles, procedures})
    dirty,              \* a state update is waiting for a re-render
    depsChanged,        \* a dependency of the render effect changed since the last commit
    containerAttached,  \* cesiumContainer.current is the map <div>
    viewer,             \* viewerRef.current is a Cesium.Viewer
    camera,             \* None, or Some(height of the last camera.flyTo destination)
    scene               \* viewer.entities, in insertion order

vars == <<mounted, effects, chain, response, outcome, fetchCount, data, loading,
          layers, waypointSources, obstacleTypes, searchTerm, expandedCategories,
          dirty, depsChanged, containerAttached, viewer, camera, scene>>

---------------------------------------------------------------------------
(* Bounds of the model *)

\* Longest coordinate list of a route or of a leg in the modelled documents.
MaxCoords == 3

---------------------------------------------------------------------------
(* JavaScript values *)

None == <<>>
Some(x) == <<x>>
Has(o) == Len(o) = 1
Val(o) == o[1]

\* Truthiness of an optional number: undefined and 0 are falsy.
TruthyNum(o) == Has(o) /\ Val(o) # 0

\* Truthiness of an optional string: undefined and "" are falsy.
TruthyStr(o) == Has(o) /\ Len(Val(o)) > 0

\* o || d for an optional number o.
OrNum(o, d) == IF TruthyNum(o) THEN Val(o) ELSE d

\* o || d for an optional string o.
OrStr(o, d) == IF TruthyStr(o) THEN Val(o) ELSE d

LowerChar(c) ==
    CASE c = "A" -> "a"
      [] c = "B" -> "b"
      [] c = "C" -> "c"
      [] OTHER -> c

\* String.prototype.toLowerCase
ToLowerCase(s) == [i \in 1..Len(s) |-> LowerChar(s[i])]

\* The indices 1..n of an array of n elements, in order.
Indices(n) == [i \in 1..n |-> i]

\* String.prototype.includes
Includes(s, t) == \E i \in 1..(Len(s) - Len(t) + 1) : SubSeq(s, i, i + Len(t) - 1) = t

---------------------------------------------------------------------------
(* Program constants *)

LayerKeys == {"waypoints", "obstacles", "airspace", "SID", "STAR", "APPROACH"}
ObstacleTypeKeys == {"Building", "Tower", "Natural", "Tree", "Navaid", "ETC"}
CategoryKeys == {"waypoints", "obstacles", "procedures"}
ProcTypes == <<"SID", "STAR", "APPROACH">>

InitialLayers ==
    [k \in LayerKeys |-> k \in {"waypoints", "obstacles", "airspace", "APPROACH"}]
InitialObstacleTypes == [k \in ObstacleTypeKeys |-> TRUE]
InitialExpanded == [k \in CategoryKeys |-> TRUE]

COLORS(k) ==
    CASE k = "SID" -> "#00C853"
      [] k = "STAR" -> "#FF6D00"
      [] k = "APPROACH" -> "#2979FF"
      [] k = "waypoint" -> "#FFEB3B"
      [] k = "obstacle_building" -> "#F44336"
      [] k = "obstacle_tower" -> "#FF5722"
      [] k = "obstacle_natural" -> "#4CAF50"
      [] k = "obstacle_tree" -> "#8BC34A"
      [] k = "obstacle_navaid" -> "#9C27B0"
      [] k = "obstacle_etc" -> "#607D8B"
      [] k = "airspace" -> "#E91E63"
      [] k = "runway" -> "#FFFFFF"

\* OBSTACLE_COLORS[type]: None for a type that is no key of the table.
OBSTACLE_COLORS(type) ==
    CASE type = "Building" -> Some(COLORS("obstacle_building"))
      [] type = "Tower" -> Some(COLORS("obstacle_tower"))
      [] type = "Natural" -> Some(COLORS("obstacle_natural"))
      [] type = "Tree" -> Some(COLORS("obstacle_tree"))
      [] type = "Navaid" -> Some(COLORS("obstacle_navaid"))
      [] type = "ETC" -> Some(COLORS("obstacle_etc"))
      [] OTHER -> None

DefaultWaypointAltitude == 100
DefaultTopAlt == 3000
DefaultBaseAlt == 0
RouteBaseAltitude == 500
RouteAltitudeStep == 50
DefaultLegAltitude == 1000
InitialCameraHeight == 25000
HomeCameraHeight == 15000

AirspaceDefaultName == <<"A", "i", "r", "s", "p", "a", "c", "e">>
RunwayName == <<"R", "W", "Y">>

---------------------------------------------------------------------------
(* Documents: the values of /aviation_data.json the model draws from.      *)
(* Shape: {waypoints: {name -> {lat, lon, altitude?, sources}},            *)
(* obstacles: [{id, type, lat, lon, elevation}], airspace?: [{name?,       *)
(* base_alt?, top_alt?, coordinates?}], procedures: {SID, STAR, APPROACH}} *)
(* The waypoints object is the sequence of its entries (Object.entries     *)
(* order); its keys are distinct.                                          *)

Coords(n) == [i \in 1..n |-> <<i, i>>]

Waypoint(name, pos, altitude, sources) ==
    [name |-> name, lat |-> pos, lon |-> pos, altitude |-> altitude, sources |-> sources]

Obstacle(id, type, pos, elevation) ==
    [id |-> id, type |-> type, lat |-> pos, lon |-> pos, elevation |-> elevation]

Zone(name, base, top, coordinates) ==
    [name |-> name, base_alt |-> base, top_alt |-> top, coordinates |-> coordinates]

Leg(seq, startAlt, endAlt, coordinates) ==
    [seq |-> seq, start_alt |-> startAlt, end_alt |-> endAlt, coordinates |-> coordinates]

Procedure(name, coordinates, legs) ==
    [name |-> name, table |-> "T", coordinates |-> coordinates, legs |-> legs]

\* The (start_alt, end_alt) pairs of the modelled legs.
LegAltCases ==
    << <<None, None>>, <<Some(0), Some(500)>>, <<Some(700), Some(0)>>,
       <<None, Some(600)>>, <<None, Some(0)>>, <<Some(0), None>>,
       <<Some(800), Some(900)>> >>

\* One leg per altitude case, each with two coordinates.
AltLegs == [k \in 1..Len(LegAltCases) |->
              Leg(None, LegAltCases[k][1], LegAltCases[k][2], Some(Coords(2)))]

\* One leg per coordinate count 0..MaxCoords, then one without coordinates.
CountLegs ==
    [m \in 1..(MaxCoords + 2) |->
        IF m = MaxCoords + 2
        THEN Leg(Some(0), Some(400), None, None)
        ELSE Leg(Some(m + 1), Some(400), None, Some(Coords(m - 1)))]

\* One procedure per route length 0..MaxCoords, each with the CountLegs.
CountProcedures ==
    [n \in 1..(MaxCoords + 1) |->
        Procedure(<<"R", ToString(n - 1)>>, Some(Coords(n - 1)), Some(CountLegs))]

DocFull ==
    [waypoints |-> << Waypoint(<<"A", "b">>, 1, None, Some(<<"NAV1">>)),
                      Waypoint(<<"b", "4">>, 2, Some(0), Some(<<>>)),
                      Waypoint(<<"C">>, 3, Some(300), Some(<<"NAV1", "NAV2">>)),
                      Waypoint(<<"4">>, 4, Some(0), Some(<<"NAV2">>)) >>,
     obstacles |-> << Obstacle(<<"4", "2">>, "Tower", 1, 80),
                      Obstacle(<<"a", "4">>, "Crane", 2, 20),
                      Obstacle(<<"B">>, "ETC", 3, 10),
                      Obstacle(<<"b", "2">>, "Building", 4, 0) >>,
     airspace |-> Some(<< Zone(Some(<<"C", "T", "R">>), Some(100), Some(2000),
                               Some(<<Coords(3)>>)),
                          Zone(None, None, None, None),
                          Zone(None, None, None, Some(<<>>)),
                          Zone(None, None, None, Some(<< <<>> >>)),
                          Zone(Some(<<>>), Some(0), Some(0), Some(<< <<>>, Coords(3) >>)),
                          Zone(None, None, None, Some(<<Coords(3), Coords(3)>>)) >>),
     procedures |->
        [SID |-> << Procedure(<<"S", "1">>, Some(Coords(2)), None),
                    Procedure(<<"S", "2">>, None, Some(AltLegs)) >>,
         STAR |-> << Procedure(<<"b">>, Some(Coords(1)),
                               Some(<< Leg(None, None, None, Some(Coords(2))) >>)) >>,
         APPROACH |-> CountProcedures]]

DocSparse ==
    [waypoints |-> << Waypoint(<<"B", "c">>, 1, Some(50), Some(<<"AIP">>)) >>,
     obstacles |-> << Obstacle(<<"c", "4">>, "Navaid", 1, 40) >>,
     airspace |-> None,
     procedures |->
        [SID |-> <<>>,
         STAR |-> << Procedure(<<"T", "1">>, None, None) >>,
         APPROACH |-> << Procedure(<<"A", "b">>, Some(Coords(MaxCoords)), Some(<<>>)) >>]]

\* A document whose second waypoint has no sources array: wp.sources.forEach throws.
DocBad ==
    [DocFull EXCEPT !.waypoints =
        << Waypoint(<<"A", "b">>, 1, None, Some(<<"NAV1">>)),
           Waypoint(<<"b", "4">>, 2, Some(0), None) >>]

\* Documents for which the whole then-callback completes.
LoadableDocs == {DocFull, DocSparse}
Documents == LoadableDocs \cup {DocBad}

\* The values the search box is set to.
SearchTerms == {<<>>, <<"B">>, <<"A", "4">>}

---------------------------------------------------------------------------
(* The render pass: the body of the "Render entities" effect.  An entity   *)
(* is the options object handed to viewer.entities.add; idx and sub record *)
(* which record (and which leg) the forEach iteration that created it was  *)
(* visiting, standing for the identity of the JavaScript object.           *)

Entity(kind, name, legNo, positions, color, lo, hi, idx, sub) ==
    [kind |-> kind, name |-> name, legNo |-> legNo, positions |-> positions,
     color |-> color, lo |-> lo, hi |-> hi, idx |-> idx, sub |-> sub]

\* viewer.entities.removeAll()
\* (RemoveAllKeeps: the variant that leaves the earlier entities in place.)
RemoveAllKeeps(s) == s
RemoveAll(s) == <<>>

\* addRunway(viewer); degrees are scaled by 10^4.
AddRunway(s) ==
    Append(s, Entity("runway", RunwayName, 0,
                     << <<1293505, 355890, 0>>, <<1293530, 355978, 0>> >>,
                     COLORS("runway"), 0, 0, 0, 0))

\* The search gate: an item is skipped when
\* searchTerm && !text.toLowerCase().includes(searchTerm.toLowerCase()).
SearchGate(text, st) ==
    ~(Len(st) > 0 /\ ~Includes(ToLowerCase(text), ToLowerCase(st)))

\* wp.sources.some((src) => waypointSources[src])
\* (HasActiveSourceAlways: the variant without the source filter.)
HasActiveSourceAlways(wp, ws) == TRUE
HasActiveSource(wp, ws) ==
    \E k \in 1..Len(Val(wp.sources)) : Val(wp.sources)[k] \in ws

WaypointEntity(i, wp) ==
    Entity("waypoint", wp.name, 0,
           << <<wp.lon, wp.lat, OrNum(wp.altitude, DefaultWaypointAltitude)>> >>,
           COLORS("waypoint"), 0, 0, i, 0)

\* The forEach loops append, in order, one entity for every record that
\* passes the early returns of the callback.
WaypointsForEach(s, wps, st, ws) ==
    LET passes(i) == SearchGate(wps[i].name, st) /\ HasActiveSource(wps[i], ws)
        kept == SelectSeq(Indices(Len(wps)), passes)
    IN s \o [k \in 1..Len(kept) |-> WaypointEntity(kept[k], wps[kept[k]])]

AddWaypoints(s, d, ly, st, ws) ==
    IF ly["waypoints"] THEN WaypointsForEach(s, d.waypoints, st, ws) ELSE s

\* obstacleTypes[obs.type]: undefined (falsy) for a type that is no key.
\* (ObstacleTypeGateOpen: the variant without the type filter.)
ObstacleTypeGateOpen(ot, type) == TRUE
ObstacleTypeGate(ot, type) == IF type \in DOMAIN ot THEN ot[type] ELSE FALSE

\* OBSTACLE_COLORS[obs.type] || COLORS.obstacle_etc
ObstacleColor(type) ==
    IF Has(OBSTACLE_COLORS(type)) THEN Val(OBSTACLE_COLORS(type))
    ELSE COLORS("obstacle_etc")

\* The cylinder is centred at elevation / 2 (the modelled elevations are even).
ObstacleEntity(i, obs) ==
    Entity("obstacle", obs.id, 0,
           << <<obs.lon, obs.lat, obs.elevation \div 2>> >>,
           ObstacleColor(obs.type), 0, obs.elevation, i, 0)

ObstaclesForEach(s, obss, ot, st) ==
    LET passes(i) == ObstacleTypeGate(ot, obss[i].type) /\ SearchGate(obss[i].id, st)
        kept == SelectSeq(Indices(Len(obss)), passes)
    IN s \o [k \in 1..Len(kept) |-> ObstacleEntity(kept[k], obss[kept[k]])]

AddObstacles(s, d, ly, ot, st) ==
    IF ly["obstacles"] THEN ObstaclesForEach(s, d.obstacles, ot, st) ELSE s

\* !as.coordinates || !as.coordinates[0] is false: the zone has a first ring
\* (an empty ring is an array, hence truthy).
ZoneHasFirstRing(as) == Has(as.coordinates) /\ Len(Val(as.coordinates)) >= 1

AirspaceEntity(i, as) ==
    LET ring == Val(as.coordinates)[1]
        top == OrNum(as.top_alt, DefaultTopAlt)
    IN Entity("airspace", OrStr(as.name, AirspaceDefaultName), 0,
              [k \in 1..Len(ring) |-> <<ring[k][1], ring[k][2], top>>],
              COLORS("airspace"), OrNum(as.base_alt, DefaultBaseAlt), top, i, 0)

AirspaceForEach(s, zones) ==
    LET passes(i) == ZoneHasFirstRing(zones[i])
        kept == SelectSeq(Indices(Len(zones)), passes)
    IN s \o [k \in 1..Len(kept) |-> AirspaceEntity(kept[k], zones[kept[k]])]

AddAirspace(s, d, ly) ==
    IF ly["airspace"] /\ Has(d.airspace) THEN AirspaceForEach(s, Val(d.airspace))
    ELSE s

\* proc.coordinates && proc.coordinates.length >= 2
\* (HasRouteAlways: the variant without the length test.)
HasRouteAlways(proc) == Has(proc.coordinates)
HasRoute(proc) == Has(proc.coordinates) /\ Len(Val(proc.coordinates)) >= 2

RouteEntity(cat, i, proc) ==
    LET cs == Val(proc.coordinates)
    IN Entity("route", proc.name, 0,
              [k \in 1..Len(cs) |->
                  <<cs[k][1], cs[k][2], RouteBaseAltitude + (k - 1) * RouteAltitudeStep>>],
              COLORS(cat), 0, 0, i, 0)

\* !(!leg.coordinates || leg.coordinates.length < 2)
LegDrawn(leg) == Has(leg.coordinates) /\ Len(Val(leg.coordinates)) >= 2

\* leg.start_alt || leg.end_alt || 1000
LegAltitude(leg) == OrNum(leg.start_alt, OrNum(leg.end_alt, DefaultLegAltitude))

LegEntity(cat, i, j, proc, leg) ==
    LET cs == Val(leg.coordinates)
        alt == LegAltitude(leg)
    IN Entity("leg", proc.name, OrNum(leg.seq, j),
              [k \in 1..Len(cs) |-> <<cs[k][1], cs[k][2], alt>>],
              COLORS(cat), 0, 0, i, j)

LegsForEach(s, cat, i, proc, legs) ==
    LET passes(j) == LegDrawn(legs[j])
        kept == SelectSeq(Indices(Len(legs)), passes)
    IN s \o [k \in 1..Len(kept) |-> LegEntity(cat, i, kept[k], proc, legs[kept[k]])]

\* The body of data.procedures[procType].forEach for one procedure.
AddProcedure(s, cat, i, proc) ==
    LET withRoute == IF HasRoute(proc) THEN Append(s, RouteEntity(cat, i, proc)) ELSE s
    IN IF Has(proc.legs) THEN LegsForEach(withRoute, cat, i, proc, Val(proc.legs))
       ELSE withRoute

\* The entities added for procedures i, i + 1, ... of one category.
RECURSIVE ProceduresFrom(_, _, _)
ProceduresFrom(cat, procs, i) ==
    IF i > Len(procs) THEN <<>>
    ELSE AddProcedure(<<>>, cat, i, procs[i]) \o ProceduresFrom(cat, procs, i + 1)

ProceduresForEach(s, cat, procs) == s \o ProceduresFrom(cat, procs, 1)

\* !layers[procType] || !data.procedures[procType] is false (the three
\* arrays are present in every modelled document).
ProcTypeGate(ly, cat) == ly[cat]

RECURSIVE ProcTypesForEach(_, _, _, _)
ProcTypesForEach(s, d, ly, t) ==
    IF t > Len(ProcTypes) THEN s
    ELSE ProcTypesForEach(
            IF ProcTypeGate(ly, ProcTypes[t])
            THEN ProceduresForEach(s, ProcTypes[t], d.procedures[ProcTypes[t]])
            ELSE s,
            d, ly, t + 1)

AddProcedures(s, d, ly) == ProcTypesForEach(s, d, ly, 1)

\* The whole effect: the guard of line 131, then the pass.
\* (RenderEffectSearchGatesAll: the variant in which a search term also hides
\* the airspace and the procedures.)
RenderEffectSearchGatesAll(v, d, ly, ws, ot, st, s) ==
    IF ~v \/ ~Has(d) THEN s
    ELSE LET points == AddObstacles(
                          AddWaypoints(AddRunway(RemoveAll(s)), Val(d), ly, st, ws),
                          Val(d), ly, ot, st)
         IN IF Len(st) > 0 THEN points
            ELSE AddProcedures(AddAirspace(points, Val(d), ly), Val(d), ly)
RenderEffect(v, d, ly, ws, ot, st, s) ==
    IF ~v \/ ~Has(d) THEN s
    ELSE AddProcedures(
            AddAirspace(
                AddObstacles(
                    AddWaypoints(AddRunway(RemoveAll(s)), Val(d), ly, st, ws),
                    Val(d), ly, ot, st),
                Val(d), ly),
            Val(d), ly)

---------------------------------------------------------------------------
(* The component: mount, passive effects, promise chain, re-render.        *)

Init ==
    /\ mounted = FALSE
    /\ effects = <<>>
    /\ chain = "idle"
    /\ response = None
    /\ outcome = "none"
    /\ fetchCount = 0
    /\ data = None
    /\ loading = TRUE
    /\ layers = InitialLayers
    /\ waypointSources = {}
    /\ obstacleTypes = InitialObstacleTypes
    /\ searchTerm = <<>>
    /\ expandedCategories = InitialExpanded
    /\ dirty = FALSE
    /\ depsChanged = FALSE
    /\ containerAttached = FALSE
    /\ viewer = FALSE
    /\ camera = None
    /\ scene = <<>>

\* The JSX returned by App: the loading <div> while loading, else the tree
\* that holds <div ref={cesiumContainer}>.
ContainerRendered(ld) == ~ld

\* First render and commit; the three effects are queued in declaration order.
Mount ==
    /\ ~mounted
    /\ mounted' = TRUE
    /\ containerAttached' = ContainerRendered(loading)
    /\ effects' = <<"load", "cesium", "render">>
    /\ UNCHANGED <<chain, response, outcome, fetchCount, data, loading, layers,
                   waypointSources, obstacleTypes, searchTerm, expandedCategories,
                   dirty, depsChanged, viewer, camera, scene>>

\* useEffect(() => { fetch('/aviation_data.json')... }, [])
RunLoadEffect ==
    /\ effects # <<>> /\ Head(effects) = "load"
    /\ effects' = Tail(effects)
    /\ fetchCount' = fetchCount + 1
    /\ chain' = "fetching"
    /\ UNCHANGED <<mounted, response, outcome, data, loading, layers,
                   waypointSources, obstacleTypes, searchTerm, expandedCategories,
                   dirty, depsChanged, containerAttached, viewer, camera, scene>>

\* The guard of the Cesium effect: it returns when the container is not
\* attached or a viewer exists.
CesiumGuard(attached, v) == ~(~attached \/ v)

\* useEffect(() => { ... new Cesium.Viewer ... camera.flyTo ... }, [])
RunCesiumEffect ==
    /\ effects # <<>> /\ Head(effects) = "cesium"
    /\ effects' = Tail(effects)
    /\ IF CesiumGuard(containerAttached, viewer)
       THEN /\ viewer' = TRUE
            /\ camera' = Some(InitialCameraHeight)
       ELSE UNCHANGED <<viewer, camera>>
    /\ UNCHANGED <<mounted, chain, response, outcome, fetchCount, data, loading,
                   layers, waypointSources, obstacleTypes, searchTerm,
                   expandedCategories, dirty, depsChanged, containerAttached, scene>>

\* useEffect(() => { ... }, [data, layers, waypointSources, obstacleTypes, searchTerm])
RunRenderEffect ==
    /\ effects # <<>> /\ Head(effects) = "render"
    /\ effects' = Tail(effects)
    /\ scene' = RenderEffect(viewer, data, layers, waypointSources, obstacleTypes,
                             searchTerm, scene)
    /\ UNCHANGED <<mounted, chain, response, outcome, fetchCount, data, loading,
                   layers, waypointSources, obstacleTypes, searchTerm,
                   expandedCategories, dirty, depsChanged, containerAttached,
                   viewer, camera>>

\* The network answers only after the effects of the mount have run.
Idle == effects = <<>> /\ ~dirty

\* fetch rejects (network error): control passes to .catch.
FetchReject ==
    /\ chain = "fetching" /\ Idle
    /\ chain' = "catch"
    /\ UNCHANGED <<mounted, effects, response, outcome, fetchCount, data, loading,
                   layers, waypointSources, obstacleTypes, searchTerm,
                   expandedCategories, dirty, depsChanged, containerAttached,
                   viewer, camera, scene>>

\* res.json() rejects (the body is not JSON): control passes to .catch.
JsonReject ==
    /\ chain = "fetching" /\ Idle
    /\ chain' = "catch"
    /\ response' = None
    /\ UNCHANGED <<mounted, effects, outcome, fetchCount, data, loading,
                   layers, waypointSources, obstacleTypes, searchTerm,
                   expandedCategories, dirty, depsChanged, containerAttached,
                   viewer, camera, scene>>

\* res.json() resolves with a document.
JsonResolve ==
    /\ chain = "fetching" /\ Idle
    /\ \E doc \in Documents : response' = Some(doc)
    /\ chain' = "then"
    /\ UNCHANGED <<mounted, effects, outcome, fetchCount, data, loading,
                   layers, waypointSources, obstacleTypes, searchTerm,
                   expandedCategories, dirty, depsChanged, containerAttached,
                   viewer, camera, scene>>

\* setData(json)
ThenSetData ==
    /\ chain = "then"
    /\ data' = response
    /\ dirty' = TRUE
    /\ depsChanged' = TRUE
    /\ chain' = "sources"
    /\ UNCHANGED <<mounted, effects, response, outcome, fetchCount, loading,
                   layers, waypointSources, obstacleTypes, searchTerm,
                   expandedCategories, containerAttached, viewer, camera, scene>>

\* wp.sources.forEach throws when a waypoint has no sources array.
SourcesDerivable(doc) == \A i \in 1..Len(doc.waypoints) : Has(doc.waypoints[i].sources)

\* The tags that the loop of lines 70-75 maps to true.
DerivedSources(doc) ==
    UNION {{Val(doc.waypoints[i].sources)[k] : k \in 1..Len(Val(doc.waypoints[i].sources))} :
            i \in 1..Len(doc.waypoints)}

\* Lines 69-76: derive the source flags, then setWaypointSources(sources);
\* an exception in the loop passes control to .catch.
ThenInitSources ==
    /\ chain = "sources"
    /\ IF SourcesDerivable(Val(response))
       THEN /\ waypointSources' = DerivedSources(Val(response))
            /\ dirty' = TRUE
            /\ depsChanged' = TRUE
            /\ chain' = "setLoading"
       ELSE /\ chain' = "catch"
            /\ UNCHANGED <<waypointSources, dirty, depsChanged>>
    /\ UNCHANGED <<mounted, effects, response, outcome, fetchCount, data, loading,
                   layers, obstacleTypes, searchTerm, expandedCategories,
                   containerAttached, viewer, camera, scene>>

\* setLoading(false), the last statement of the then-callback.
ThenSetLoading ==
    /\ chain = "setLoading"
    /\ loading' = FALSE
    /\ dirty' = TRUE
    /\ chain' = "done"
    /\ outcome' = "ok"
    /\ UNCHANGED <<mounted, effects, response, fetchCount, data, layers,
                   waypointSources, obstacleTypes, searchTerm, expandedCategories,
                   depsChanged, containerAttached, viewer, camera, scene>>

\* .catch((err) => { console.error(...); setLoading(false); })
Catch ==
    /\ chain = "catch"
    /\ loading' = FALSE
    /\ dirty' = TRUE
    /\ chain' = "done"
    /\ outcome' = "failed"
    /\ UNCHANGED <<mounted, effects, response, fetchCount, data, layers,
                   waypointSources, obstacleTypes, searchTerm, expandedCategories,
                   depsChanged, containerAttached, viewer, camera, scene>>

\* A re-render and commit after state updates made outside a handler: with
\* automatic batching once after the callback, without it after each setter.
\* Queued effects are flushed before the next render.  The effects with []
\* dependencies are not queued again.
Rerender ==
    /\ mounted /\ dirty /\ effects = <<>>
    /\ dirty' = FALSE
    /\ depsChanged' = FALSE
    /\ containerAttached' = ContainerRendered(loading)
    /\ effects' = IF depsChanged THEN <<"render">> ELSE <<>>
    /\ UNCHANGED <<mounted, chain, response, outcome, fetchCount, data, loading,
                   layers, waypointSources, obstacleTypes, searchTerm,
                   expandedCategories, viewer, camera, scene>>

---------------------------------------------------------------------------
(* The handlers of the control panel.  The panel exists once the tree with *)
(* loading = false is committed.  A handler runs to completion together    *)
(* with the re-render it causes and, when a dependency of the render       *)
(* effect changed, with that effect: React flushes them before the next    *)
(* event is handled.                                                       *)

PanelReady == mounted /\ containerAttached /\ chain = "done" /\ Idle

\* toggleLayer(layer), from the six layer rows.
ToggleLayer ==
    /\ PanelReady
    /\ \E layer \in LayerKeys :
        /\ layers' = [layers EXCEPT ![layer] = ~layers[layer]]
        /\ scene' = RenderEffect(viewer, data, layers', waypointSources,
                                 obstacleTypes, searchTerm, scene)
    /\ UNCHANGED <<mounted, effects, chain, response, outcome, fetchCount, data,
                   loading, waypointSources, obstacleTypes, searchTerm,
                   expandedCategories, dirty, depsChanged, containerAttached,
                   viewer, camera>>

\* toggleObstacleType(type), from the rows of Object.entries(obstacleTypes),
\* shown while the section is expanded.
ToggleObstacleType ==
    /\ PanelReady
    /\ expandedCategories["obstacles"]
    /\ \E type \in DOMAIN obstacleTypes :
        /\ obstacleTypes' = [obstacleTypes EXCEPT ![type] = ~obstacleTypes[type]]
        /\ scene' = RenderEffect(viewer, data, layers, waypointSources,
                                 obstacleTypes', searchTerm, scene)
    /\ UNCHANGED <<mounted, effects, chain, response, outcome, fetchCount, data,
                   loading, layers, waypointSources, searchTerm,
                   expandedCategories, dirty, depsChanged, containerAttached,
                   viewer, camera>>

\* toggleCategory('obstacles'), the only category header in the panel;
\* expandedCategories is no dependency of the render effect.
ToggleCategory ==
    /\ PanelReady
    /\ \E category \in {"obstacles"} :
        expandedCategories' =
            [expandedCategories EXCEPT ![category] = ~expandedCategories[category]]
    /\ UNCHANGED <<mounted, effects, chain, response, outcome, fetchCount, data,
                   loading, layers, waypointSources, obstacleTypes, searchTerm,
                   dirty, depsChanged, containerAttached, viewer, camera, scene>>

\* onChange of the search box: setSearchTerm(e.target.value).
SetSearchTerm ==
    /\ PanelReady
    /\ \E v \in SearchTerms \ {searchTerm} :
        /\ searchTerm' = v
        /\ scene' = RenderEffect(viewer, data, layers, waypointSources,
                                 obstacleTypes, v, scene)
    /\ UNCHANGED <<mounted, effects, chain, response, outcome, fetchCount, data,
                   loading, layers, waypointSources, obstacleTypes,
                   expandedCategories, dirty, depsChanged, containerAttached,
                   viewer, camera>>

\* flyToAirport
FlyToAirport ==
    /\ PanelReady
    /\ camera' = IF viewer THEN Some(HomeCameraHeight) ELSE camera
    /\ UNCHANGED <<mounted, effects, chain, response, outcome, fetchCount, data,
                   loading, layers, waypointSources, obstacleTypes, searchTerm,
                   expandedCategories, dirty, depsChanged, containerAttached,
                   viewer, scene>>

Next ==
    \/ Mount
    \/ RunLoadEffect
    \/ RunCesiumEffect
    \/ RunRenderEffect
    \/ FetchReject
    \/ JsonReject
    \/ JsonResolve
    \/ ThenSetData
    \/ ThenInitSources
    \/ ThenSetLoading
    \/ Catch
    \/ Rerender
    \/ ToggleLayer
    \/ ToggleObstacleType
    \/ ToggleCategory
    \/ SetSearchTerm
    \/ FlyToAirport

Spec == Init /\ [][Next]_vars

---------------------------------------------------------------------------
(* The render pass on its own.  PassSpec starts where a viewer exists and  *)
(* a document has been loaded: the first pass is queued, and the handlers  *)
(* that change a dependency of the effect then drive the pass through the  *)
(* filter states.                                                          *)

PassInit ==
    /\ mounted = TRUE
    /\ effects = <<"render">>
    /\ chain = "done"
    /\ \E doc \in LoadableDocs :
        /\ response = Some(doc)
        /\ data = Some(doc)
        /\ waypointSources = DerivedSources(doc)
    /\ outcome = "ok"
    /\ fetchCount = 1
    /\ loading = FALSE
    /\ layers = InitialLayers
    /\ obstacleTypes = InitialObstacleTypes
    /\ searchTerm = <<>>
    /\ expandedCategories = InitialExpanded
    /\ dirty = FALSE
    /\ depsChanged = FALSE
    /\ containerAttached = TRUE
    /\ viewer = TRUE
    /\ camera = Some(InitialCameraHeight)
    /\ scene = <<>>

PassNext ==
    \/ RunRenderEffect
    \/ ToggleLayer
    \/ ToggleObstacleType
    \/ SetSearchTerm

PassSpec == PassInit /\ [][PassNext]_vars

---------------------------------------------------------------------------
(* Vocabulary of the properties, stated without the operators of the pass. *)

\* A render pass has run on the current data and filter state.
Rendered == viewer /\ Has(data) /\ effects = <<>> /\ ~dirty

\* The load has ended and nothing is left to run until the user acts.
Settled == mounted /\ chain = "done" /\ effects = <<>> /\ ~dirty

CasePairs == {<<"A", "a">>, <<"B", "b">>, <<"C", "c">>}
SameLetter(a, b) == a = b \/ <<a, b>> \in CasePairs \/ <<b, a>> \in CasePairs

\* text contains term, ignoring case; the empty term is contained in every text.
ContainsCI(text, term) ==
    \E off \in 0..(Len(text) - Len(term)) :
        \A j \in 1..Len(term) : SameLetter(text[off + j], term[j])

\* The positions of the scene that hold an entity of the kind for record i.
EntitiesFor(kind, i) ==
    {k \in 1..Len(scene) : scene[k].kind = kind /\ scene[k].idx = i}

HasRunway(s) == \E k \in 1..Len(s) : s[k].kind = "runway"

WaypointVisible(wp) ==
    /\ layers["waypoints"]
    /\ ContainsCI(wp.name, searchTerm)
    /\ \E k \in 1..Len(Val(wp.sources)) : Val(wp.sources)[k] \in waypointSources

ObstacleVisible(obs) ==
    /\ layers["obstacles"]
    /\ obs.type \in ObstacleTypeKeys
    /\ obstacleTypes[obs.type]
    /\ ContainsCI(obs.id, searchTerm)

---------------------------------------------------------------------------
(* Properties *)

\* C1: once the dataset has loaded successfully and the component has
\* settled, the viewer is initialised, the camera has been flown to the home
\* coordinate and the scene holds the entities of a render pass.
C1_LoadedViewerRendered ==
    (Settled /\ outcome = "ok") =>
        (viewer /\ Has(camera) /\ HasRunway(scene))

\* C2: after a render pass a waypoint has an entity in the scene iff
\* layers.waypoints is true, its name contains the search term ignoring case
\* and one of its source tags is active.
C2_WaypointShownIff ==
    Rendered =>
        \A i \in 1..Len(Val(data).waypoints) :
            LET wp == Val(data).waypoints[i]
            IN (\E k \in EntitiesFor("waypoint", i) : scene[k].name = wp.name)
                   <=> WaypointVisible(wp)

C2_Witness ==
    /\ Rendered
    /\ searchTerm = <<"B">>
    /\ \E k \in 1..Len(scene) : scene[k].kind = "waypoint" /\ scene[k].name = <<"A", "b">>
    /\ ~\E k \in 1..Len(scene) : scene[k].kind = "waypoint" /\ scene[k].name = <<"b", "4">>
    /\ ~\E k \in 1..Len(scene) : scene[k].kind = "waypoint" /\ scene[k].name = <<"C">>

\* C3: after a render pass an obstacle of one of the six toggle types has an
\* entity in the scene iff layers.obstacles is true, its type toggle is true
\* and its id contains the search term ignoring case.
C3_ObstacleShownIff ==
    Rendered =>
        \A i \in 1..Len(Val(data).obstacles) :
            LET obs == Val(data).obstacles[i]
            IN obs.type \in ObstacleTypeKeys =>
                ((\E k \in EntitiesFor("obstacle", i) : scene[k].name = obs.id)
                    <=> (/\ layers["obstacles"]
                         /\ obstacleTypes[obs.type]
                         /\ ContainsCI(obs.id, searchTerm)))

C3_Witness ==
    /\ Rendered
    /\ searchTerm = <<"B">>
    /\ ~obstacleTypes["ETC"]
    /\ obstacleTypes["Building"]
    /\ \E k \in 1..Len(scene) : scene[k].kind = "obstacle" /\ scene[k].name = <<"b", "2">>
    /\ ~\E k \in 1..Len(scene) : scene[k].kind = "obstacle" /\ scene[k].name = <<"B">>

\* C4: after a render pass an obstacle of an unrecognised type has an entity
\* with the ETC fallback colour whenever layers.obstacles is true and its id
\* contains the search term.
C4_UnknownTypeRenders ==
    Rendered =>
        \A i \in 1..Len(Val(data).obstacles) :
            LET obs == Val(data).obstacles[i]
            IN (/\ obs.type \notin ObstacleTypeKeys
                /\ layers["obstacles"]
                /\ ContainsCI(obs.id, searchTerm))
                => \E k \in EntitiesFor("obstacle", i) : scene[k].color = "#607D8B"

\* C5: after a render pass an airspace zone has an entity in the scene iff
\* layers.airspace is true and the zone has at least one non-empty
\* coordinate ring.
C5_ZoneShownIff ==
    Rendered =>
        \A i \in 1..(IF Has(Val(data).airspace) THEN Len(Val(Val(data).airspace)) ELSE 0) :
            LET as == Val(Val(data).airspace)[i]
            IN (EntitiesFor("airspace", i) # {})
                <=> (/\ layers["airspace"]
                     /\ Has(as.coordinates)
                     /\ \E r \in 1..Len(Val(as.coordinates)) :
                            Len(Val(as.coordinates)[r]) > 0)

\* The positions of the scene that hold a polyline of the kind drawn in the
\* colour of procedure category cat for procedure i (and leg j; 0 for a route).
PolylinesFor(kind, cat, i, j) ==
    {k \in 1..Len(scene) :
        /\ scene[k].kind = kind
        /\ scene[k].color = COLORS(cat)
        /\ scene[k].idx = i
        /\ scene[k].sub = j}

ProcCategories == {"SID", "STAR", "APPROACH"}

CoordCount(o) == IF Has(o) THEN Len(Val(o)) ELSE 0
LegCount(proc) == IF Has(proc.legs) THEN Len(Val(proc.legs)) ELSE 0

\* C6: a procedure category is gated by its own toggle only; when the toggle
\* is true every procedure has exactly one route polyline iff it has at least
\* two route coordinates and, independently, exactly one polyline for each
\* leg with at least two coordinates and none for the other legs.
C6_ProcedurePolylines ==
    Rendered =>
        \A cat \in ProcCategories :
            \A i \in 1..Len(Val(data).procedures[cat]) :
                LET proc == Val(data).procedures[cat][i]
                IN /\ Cardinality(PolylinesFor("route", cat, i, 0)) =
                        (IF layers[cat] /\ CoordCount(proc.coordinates) >= 2 THEN 1 ELSE 0)
                   /\ \A j \in 1..LegCount(proc) :
                        Cardinality(PolylinesFor("leg", cat, i, j)) =
                            (IF layers[cat] /\ CoordCount(Val(proc.legs)[j].coordinates) >= 2
                             THEN 1 ELSE 0)

C6_Witness ==
    /\ Rendered
    /\ layers["SID"] /\ layers["APPROACH"] /\ ~layers["STAR"]
    /\ ~layers["waypoints"] /\ ~layers["airspace"]
    /\ PolylinesFor("route", "APPROACH", 1, 0) = {}
    /\ PolylinesFor("leg", "APPROACH", 1, MaxCoords + 1) # {}
    /\ PolylinesFor("leg", "APPROACH", 1, 1) = {}
    /\ PolylinesFor("route", "SID", 2, 0) = {}
    /\ PolylinesFor("leg", "SID", 2, 1) # {}

\* The airspace and procedure entities of a scene, in order.
IsNotSearched(e) == e.kind \in {"airspace", "route", "leg"}
NotSearched(s) == SelectSeq(s, IsNotSearched)

\* C7: two render passes whose filter states differ only in the search term
\* produce the same airspace and procedure entities, and the runway is
\* present after both.
C7_SearchGatesOnlyPoints ==
    [][(/\ Rendered /\ Rendered'
        /\ searchTerm' # searchTerm
        /\ layers' = layers /\ obstacleTypes' = obstacleTypes
        /\ waypointSources' = waypointSources /\ data' = data)
        => (/\ NotSearched(scene') = NotSearched(scene)
            /\ HasRunway(scene) /\ HasRunway(scene'))]_vars

C7_Witness ==
    /\ Rendered
    /\ searchTerm = <<"A", "4">>
    /\ layers["waypoints"] /\ layers["airspace"] /\ layers["SID"]
    /\ ~\E k \in 1..Len(scene) : scene[k].kind = "waypoint"
    /\ \E k \in 1..Len(scene) : scene[k].kind = "airspace"
    /\ \E k \in 1..Len(scene) : scene[k].kind = "route"
    /\ \E k \in 1..Len(scene) : scene[k].kind = "leg"

\* The number of entities a pass is to produce besides the runway.
ExpectedWaypoints ==
    Cardinality({i \in 1..Len(Val(data).waypoints) : WaypointVisible(Val(data).waypoints[i])})
ExpectedObstacles ==
    Cardinality({i \in 1..Len(Val(data).obstacles) : ObstacleVisible(Val(data).obstacles[i])})
ExpectedZones ==
    IF layers["airspace"] /\ Has(Val(data).airspace)
    THEN Cardinality({i \in 1..Len(Val(Val(data).airspace)) :
                        CoordCount(Val(Val(data).airspace)[i].coordinates) >= 1})
    ELSE 0
ExpectedRoutes ==
    Cardinality({ci \in UNION {{<<cat, i>> : i \in 1..Len(Val(data).procedures[cat])} :
                                cat \in ProcCategories} :
                    /\ layers[ci[1]]
                    /\ CoordCount(Val(data).procedures[ci[1]][ci[2]].coordinates) >= 2})
\* The legs of the document, as (category, procedure, leg) indices.
LegKeys ==
    UNION {UNION {{<<cat, i, j>> : j \in 1..LegCount(Val(data).procedures[cat][i])} :
                    i \in 1..Len(Val(data).procedures[cat])} :
            cat \in ProcCategories}
ExpectedLegs ==
    Cardinality({cij \in LegKeys :
                    /\ layers[cij[1]]
                    /\ CoordCount(Val(Val(data).procedures[cij[1]][cij[2]].legs)[cij[3]].coordinates) >= 2})

\* C8: after any sequence of filter changes and passes the scene holds one
\* runway and exactly one entity per record the current data and filter
\* state select: nothing is left over from an earlier pass, nothing is
\* duplicated, and the entity count is a function of the inputs alone.
C8_PassReplacesScene ==
    Rendered =>
        /\ Cardinality({k \in 1..Len(scene) : scene[k].kind = "runway"}) = 1
        /\ \A k, l \in 1..Len(scene) :
            (/\ scene[k].kind = scene[l].kind /\ scene[k].color = scene[l].color
             /\ scene[k].idx = scene[l].idx /\ scene[k].sub = scene[l].sub) => k = l
        /\ Len(scene) = 1 + ExpectedWaypoints + ExpectedObstacles + ExpectedZones
                          + ExpectedRoutes + ExpectedLegs

C8_Witness ==
    /\ Rendered
    /\ ~layers["waypoints"] /\ layers["SID"] /\ layers["APPROACH"]
    /\ ~obstacleTypes["Tower"]
    /\ searchTerm = <<"B">>
    /\ Len(scene) > 4

\* C9: one fetch is issued; a failed load leaves data null; once the load
\* has ended, data is non-null only if the then-callback completed with the
\* source flags initialised.
C9_SinglePassFail ==
    /\ fetchCount <= 1
    /\ (outcome = "failed" => ~Has(data))
    /\ ((chain = "done" /\ Has(data)) =>
            (outcome = "ok" /\ waypointSources = DerivedSources(Val(data))))

\* The altitude the fallback chain names: start_alt when present, otherwise
\* end_alt when present, otherwise 1000.
ChainAltitude(leg) ==
    IF Has(leg.start_alt) THEN Val(leg.start_alt)
    ELSE IF Has(leg.end_alt) THEN Val(leg.end_alt)
    ELSE 1000

\* C10: every position of a leg polyline is at the altitude of the fallback
\* chain of its leg.
C10_LegAltitudeChain ==
    Rendered =>
        \A cat \in ProcCategories :
            \A i \in 1..Len(Val(data).procedures[cat]) :
                \A j \in 1..LegCount(Val(data).procedures[cat][i]) :
                    \A k \in PolylinesFor("leg", cat, i, j) :
                        \A p \in 1..Len(scene[k].positions) :
                            scene[k].positions[p][3] =
                                ChainAltitude(Val(Val(data).procedures[cat][i].legs)[j])

\* The altitude the record supplies, zero included, and 100 only when the
\* record has no altitude.
OwnAltitude(wp) == IF Has(wp.altitude) THEN Val(wp.altitude) ELSE 100

\* C11: every displayed waypoint is positioned at its record's longitude
\* and latitude and at the record's own altitude whenever the record
\* supplies one, zero included, and at altitude 100 only when the record
\* has no altitude.
C11_WaypointOwnAltitude ==
    Rendered =>
        \A i \in 1..Len(Val(data).waypoints) :
            \A k \in EntitiesFor("waypoint", i) :
                scene[k].positions =
                    << <<Val(data).waypoints[i].lon, Val(data).waypoints[i].lat,
                         OwnAltitude(Val(data).waypoints[i])>> >>

\* Every source tag that occurs in a waypoint of the dataset is mapped to true.
SourcesCoverTags ==
    \A i \in 1..Len(Val(data).waypoints) :
        Has(Val(data).waypoints[i].sources) =>
            \A k \in 1..Len(Val(Val(data).waypoints[i].sources)) :
                Val(Val(data).waypoints[i].sources)[k] \in waypointSources

\* A step of one of the five user actions.
UserAction ==
    ToggleLayer \/ ToggleObstacleType \/ ToggleCategory \/ SetSearchTerm \/ FlyToAirport

\* The source filter rejects the waypoint: none of its tags is mapped to true.
HiddenBySourceFilter(wp) ==
    Has(wp.sources) /\ \A k \in 1..Len(Val(wp.sources)) :
                            Val(wp.sources)[k] \notin waypointSources

\* Once the load has ended, the source filter rejects only waypoints whose
\* source set is empty.
FilterHidesOnlyEmpty ==
    (Settled /\ Has(data)) =>
        \A i \in 1..Len(Val(data).waypoints) :
            HiddenBySourceFilter(Val(data).waypoints[i]) =>
                Len(Val(Val(data).waypoints[i].sources)) = 0

\* C12: after a successful load waypointSources maps every source tag of
\* every waypoint of the dataset to true; no step of a user action (layer
\* toggle, obstacle-type toggle, section expand/collapse, search edit,
\* fly-to-home) changes waypointSources; and in every state in which the
\* load has ended and a dataset is present, the source filter hides a
\* waypoint only if its source set is empty.
C12_SourcesFixedAndComplete ==
    /\ []((chain = "done" /\ outcome = "ok") => SourcesCoverTags)
    /\ [][UserAction => waypointSources' = waypointSources]_vars
    /\ []FilterHidesOnlyEmpty

====
